---- MODULE Spec2Model ----
(***************************************************************************)
(* A model of the MIMIC pre-processing pipeline of                         *)
(* modules/classes/mimic_pre_processor.py (MimicPreProcessor and           *)
(* save_data_to_disk) and of its caller in main.py.                        *)
(*                                                                         *)
(* Each stage of the pipeline is a pure transformation of a table, so each *)
(* stage has a specification of its own whose Init draws the stage's       *)
(* inputs from bounded sets and whose actions apply the stage:             *)
(*   SpecSplit     split_and_normalize_data (reduce_features and           *)
(*                 balance_set off), run twice to compare two runs         *)
(*   SpecSave      save_data_to_disk                                       *)
(*   SpecBalance   balance_data_set                                        *)
(*   SpecPad       pad_data                                                *)
(*   SpecReduce    reduce_features (standardization)                       *)
(*   Spec          apply_pipeline, the orchestrator, and main              *)
(***************************************************************************)
EXTENDS Integers, Sequences, FiniteSets, TLC

VARIABLES
    pc,                 \* position of the run: which step comes next
    err,                \* the exception that ended the run, or "none"
    \* ---- split_and_normalize_data
    df,                 \* the id column of the input table, in row order
    random_seed,        \* self.random_seed
    train_percentage,   \* the train fraction, <<numerator, denominator>>
    np_state,           \* state of numpy's process-wide generator
    rng,                \* the permutations the generators have produced so far
    keys,               \* line 222
    train_keys,         \* line 224
    test_keys,          \* line 225
    train_data,         \* line 226 (id column of the train rows)
    test_data,          \* line 227 (id column of the test rows)
    prev,               \* what the previous run of the split was given and returned
    \* ---- create_target and apply_pipeline
    targets,            \* the requested target names, in the order requested
    parsed_columns,     \* the columns of self.parsed_mimic
    columns,            \* the columns of the table the pipeline is working on
    balance_set,        \* argument of apply_pipeline
    reduce_features,    \* argument of apply_pipeline
    has_nan,            \* whether a NaN remains in the table
    feature_names,      \* line 304-305
    half,               \* position in the loop of line 308: 1 train, 2 test
    \* ---- reduce_features (its tables are train_data and test_data, rows of values)
    means,              \* line 119, per column
    stds,               \* lines 120-121, per column
    train_scaled,       \* line 123: the standardized train_data
    test_scaled,        \* line 124: the standardized test_data
    \* ---- balance_data_set (its table is train_data, rows [id, v])
    undersample,        \* whether to under- or to oversample
    n_pos_per_patient,  \* lines 157-158: entity -> per target, sum minus first row
    n_rows,             \* lines 160-163: index of the reference target
    pos_ids,            \* line 165, shuffled at line 170
    neg_pos_ids,        \* line 167, shuffled at line 171
    neg_ids,            \* line 168, shuffled at line 172, the pool from line 175 on
    minority_class,     \* lines 177-182
    majority_class,     \* lines 177-182
    total_ids,          \* line 186, as the set isin reads
    balanced,           \* the table balance_data_set returns
    \* ---- pad_data and save_data_to_disk
    dataset,            \* the table given to pad_data: rows [id, v], v the other columns
    time_steps,         \* T, the number of steps every entity is padded to
    whole_data,         \* the padded tensor [E, T, F]
    mask,               \* the boolean padding mask
    n_targets,          \* number of target columns
    name,               \* "train" or "test"
    input_data,         \* line 38
    targets_data,       \* line 39-40 (the source's local `targets`)
    input_data_mask,    \* line 41
    targets_mask,       \* line 42-43
    files               \* the pickle files written so far: file name -> content

splitVars == <<df, random_seed, train_percentage, np_state, rng, keys,
               train_keys, test_keys, train_data, test_data, prev>>

pipelineVars == <<targets, parsed_columns, columns, balance_set, reduce_features, has_nan,
                  feature_names, half>>

reduceVars == <<means, stds, train_scaled, test_scaled>>

balanceVars == <<undersample, n_pos_per_patient, n_rows, pos_ids, neg_pos_ids, neg_ids,
                 minority_class, majority_class, total_ids, balanced>>

padVars == <<dataset, time_steps>>

saveVars == <<whole_data, mask, n_targets, name, input_data, targets_data,
              input_data_mask, targets_mask, files>>

vars == <<pc, err, pipelineVars, splitVars, reduceVars, balanceVars, padVars, saveVars>>

----------------------------------------------------------------------------
(* Bounds *)

SplitMaxRows == 3
SplitMaxId == 2
MaxSeed == 1
FracDen == 2
SaveMaxE == 2
SaveMaxT == 3
SaveMaxF == 3
PadMaxT == 3
BalMaxE == 3
RedMaxRows == 3
PipeMaxE == 2
MaxTargets == 2

----------------------------------------------------------------------------
(* Helpers on sequences *)

Range(s) == {s[i] : i \in DOMAIN s}

\* All sequences over S of length lo..hi.
SeqsOf(S, lo, hi) == UNION {[1..n -> S] : n \in lo..hi}

\* The permutations of 1..n, as sequences.
Perms(n) == Permutations(1..n)

\* s reordered by the permutation p.
Permute(s, p) == [i \in 1..Len(s) |-> s[p[i]]]

\* pandas Series.unique(): the distinct values in order of first appearance.
RECURSIVE Unique(_)
Unique(s) ==
    IF s = <<>> THEN <<>>
    ELSE LET r == Unique(SubSeq(s, 1, Len(s) - 1))
         IN  IF s[Len(s)] \in Range(r) THEN r ELSE Append(r, s[Len(s)])

\* df[df[id_col].isin(ks)]: the rows whose id is one of ks, in table order.
IsIn(s, ks) == LET keep(x) == x \in Range(ks) IN SelectSeq(s, keep)

----------------------------------------------------------------------------
(* The variables of a stage that a specification does not run *)

NoArray == [shape |-> <<0, 0, 0>>, cell |-> <<>>]

NoRun == [df |-> <<>>, seed |-> -1, frac |-> <<0, 0>>, train_keys |-> <<>>, test_keys |-> <<>>,
          train_data |-> <<>>, test_data |-> <<>>]

PipelineIdle ==
    /\ targets = <<>> /\ parsed_columns = <<>> /\ columns = <<>>
    /\ balance_set = FALSE /\ reduce_features = FALSE /\ has_nan = FALSE
    /\ feature_names = <<>> /\ half = 0

SplitIdle ==
    /\ PipelineIdle
    /\ df = <<>> /\ random_seed = 0 /\ train_percentage = <<0, 1>>
    /\ np_state = <<"entropy", 0>> /\ rng = <<>>
    /\ keys = <<>> /\ train_keys = <<>> /\ test_keys = <<>>
    /\ train_data = <<>> /\ test_data = <<>> /\ prev = NoRun

ReduceIdle == means = <<>> /\ stds = <<>> /\ train_scaled = <<>> /\ test_scaled = <<>>

BalanceIdle ==
    /\ undersample = TRUE /\ n_pos_per_patient = <<>> /\ n_rows = 0
    /\ pos_ids = <<>> /\ neg_pos_ids = <<>> /\ neg_ids = <<>>
    /\ minority_class = <<>> /\ majority_class = <<>>
    /\ total_ids = {} /\ balanced = <<>>

PadIdle == dataset = <<>> /\ time_steps = 0

TensorsIdle ==
    /\ whole_data = NoArray /\ mask = NoArray /\ name = ""
    /\ input_data = NoArray /\ targets_data = NoArray
    /\ input_data_mask = NoArray /\ targets_mask = NoArray
    /\ files = <<>>

SaveIdle == n_targets = 0 /\ TensorsIdle

----------------------------------------------------------------------------
(* Three-dimensional arrays: a shape <<E, T, F>> and a value per index *)

Max(a, b) == IF a >= b THEN a ELSE b
Min(a, b) == IF a <= b THEN a ELSE b

Idx(shape) == (1..shape[1]) \X (1..shape[2]) \X (1..shape[3])

Array(shape, f(_, _, _)) ==
    [shape |-> shape, cell |-> [i \in Idx(shape) |-> f(i[1], i[2], i[3])]]

Size(shape) == shape[1] * shape[2] * shape[3]

\* x[:, tlo..thi, flo..fhi], bounds 1-based and inclusive.
Slice(x, tlo, thi, flo, fhi) ==
    LET at(e, t, f) == x.cell[<<e, t + tlo - 1, f + flo - 1>>]
    IN  Array(<<x.shape[1], Max(thi - tlo + 1, 0), Max(fhi - flo + 1, 0)>>, at)

\* Python's a[:-k] keeps the first StopNeg(len, k) items (a[:-0] is a[:0]).
StopNeg(len, k) == IF k = 0 THEN 0 ELSE Max(len - k, 0)

\* Python's a[-k:] skips the first StartNeg(len, k) items (a[-0:] is a[0:]).
StartNeg(len, k) == IF k = 0 THEN 0 ELSE Max(len - k, 0)

\* numpy reshape to a shape of another size raises ValueError (Raised); two
\* different shapes of the same size, in this program, are both empty.
Raised == [shape |-> <<-1, -1, -1>>, cell |-> <<>>]

Reshape(x, shape) ==
    IF shape = x.shape THEN x
    ELSE IF Size(shape) = Size(x.shape) THEN [shape |-> shape, cell |-> <<>>]
    ELSE Raised

----------------------------------------------------------------------------
(* pad_data, lines 248-275 *)

\* filter_sequences(df, 2, n_time_steps), line 300: the fewest rows of an entity.
MinLength == 2

\* pad_value, line 248.
PadValue == 0

\* np.nan, line 270.
NaN == -999

\* The columns of the table besides the id column: a feature and a target.
PadColumns == <<"heart rate", "MI">>

\* The values of a cell that reaches pad_data (no NaN: lines 241-244 raise).
Values == {0, 1}

RECURSIVE Flatten(_)
Flatten(ss) == IF ss = <<>> THEN <<>> ELSE Head(ss) \o Flatten(Tail(ss))

RECURSIVE SortedSeq(_)
SortedSeq(S) ==
    IF S = {} THEN <<>>
    ELSE LET m == CHOOSE x \in S : \A y \in S : x <= y
         IN  <<m>> \o SortedSeq(S \ {m})

\* pad_sequences(df, time_steps, pad_value, grouping_col) of
\* modules/utils/pad_sequences: per entity, the first time_steps rows, then
\* rows of pad_value up to time_steps rows.
PadSequences(tab, steps, pad_value) ==
    LET ids == SortedSeq({tab[i].id : i \in DOMAIN tab})
        ncols == IF tab = <<>> THEN 0 ELSE Len(tab[1].v)
        padrow(e) == [id |-> e, v |-> [c \in 1..ncols |-> pad_value]]
        group(e) == LET mine(r) == r.id = e
                        rows == SelectSeq(tab, mine)
                    IN  [t \in 1..steps |-> IF t <= Len(rows) THEN rows[t] ELSE padrow(e)]
    IN  Flatten([k \in 1..Len(ids) |-> group(ids[k])])

\* df.drop(columns=[id_col]).values, reshaped to [rows / time_steps, time_steps, F].
ToArray(tab, steps) ==
    LET at(e, t, f) == tab[(e - 1) * steps + t].v[f]
    IN  Array(<<Len(tab) \div steps, steps, IF tab = <<>> THEN 0 ELSE Len(tab[1].v)>>, at)

\* ~whole_data.any(axis=2) at [e, t]: no value of the row is truthy (0 is the
\* one falsy value; NaN is truthy).
RowIsPadded_anyZero(x, e, t) == \E f \in 1..x.shape[3] : x.cell[<<e, t, f>>] = 0
RowIsPadded(x, e, t) == \A f \in 1..x.shape[3] : x.cell[<<e, t, f>>] = 0

\* whole_data[mask] = np.nan, mask being two-dimensional.
SetRowsNaN(x) ==
    LET at(e, t, f) == IF RowIsPadded(x, e, t) THEN NaN ELSE x.cell[<<e, t, f>>]
    IN  Array(x.shape, at)

\* np.isnan(whole_data)
IsNaN(x) == LET at(e, t, f) == x.cell[<<e, t, f>>] = NaN IN Array(x.shape, at)

\* whole_data[mask] = pad_value, mask being three-dimensional.
Fill(x, m, pad_value) ==
    LET at(e, t, f) == IF m.cell[<<e, t, f>>] THEN pad_value ELSE x.cell[<<e, t, f>>]
    IN  Array(x.shape, at)

\* The table holds one entity or two.
PadEntityCounts == {1, 2}

RowSeqs(steps) == SeqsOf([1..Len(PadColumns) -> Values], MinLength, steps)

TableOf(rows) ==
    Flatten([e \in 1..Len(rows) |-> [t \in 1..Len(rows[e]) |-> [id |-> e, v |-> rows[e][t]]]])

PadInit ==
    /\ pc = "pad" /\ err = "none"
    /\ SplitIdle /\ ReduceIdle /\ BalanceIdle
    /\ time_steps \in MinLength..PadMaxT
    /\ \E n \in PadEntityCounts : \E rows \in [1..n -> RowSeqs(time_steps)] :
         dataset = TableOf(rows)
    /\ n_targets = 0 /\ name = ""
    /\ whole_data = NoArray /\ mask = NoArray
    /\ input_data = NoArray /\ targets_data = NoArray
    /\ input_data_mask = NoArray /\ targets_mask = NoArray
    /\ files = <<>>

PadData ==
    /\ pc = "pad"
    /\ LET padded == PadSequences(dataset, time_steps, PadValue)
           values == ToArray(padded, time_steps)
           withnan == SetRowsNaN(values)
           isnan == IsNaN(withnan)
       IN  /\ mask' = isnan
           /\ whole_data' = Fill(withnan, isnan, PadValue)
    /\ pc' = "padded"
    /\ UNCHANGED <<err, pipelineVars, splitVars, reduceVars, balanceVars, padVars, n_targets, name,
                   input_data, targets_data,
                   input_data_mask, targets_mask, files>>

SpecPad == PadInit /\ [][PadData]_vars

----------------------------------------------------------------------------
(* Claims about pad_data *)

PaddedTable == PadSequences(dataset, time_steps, PadValue)

AllSentinel(row) == \A c \in DOMAIN row : row[c] = 0

\* C5: tensor and mask have the shape [E, T, F]; the mask is the same in every
\* cell of a row [e, t], and true exactly when all F values of that row of the
\* padded table are 0, be the row padding or an observation.
C5_MaskFlagsAllZeroRows ==
    pc = "padded" =>
        LET padded == PaddedTable
            row(e, t) == padded[(e - 1) * time_steps + t].v
        IN  /\ whole_data.shape
                 = <<Cardinality({dataset[r].id : r \in DOMAIN dataset}), time_steps, Len(PadColumns)>>
            /\ mask.shape = whole_data.shape
            /\ \A i \in Idx(mask.shape) :
                 /\ mask.cell[i] = AllSentinel(row(i[1], i[2]))
                 /\ \A g \in 1..mask.shape[3] : mask.cell[<<i[1], i[2], g>>] = mask.cell[i]
                 /\ whole_data.cell[i] = row(i[1], i[2])[i[3]]

\* An observation row (the first of its entity) of zeros is flagged, a padding
\* row is flagged, and a row with one zero and one non-zero value is not.
C5_Witness ==
    /\ pc = "padded"
    /\ \E e \in 1..mask.shape[1] :
         /\ AllSentinel(dataset[1].v) /\ mask.cell[<<1, 1, 1>>]
         /\ Len(SelectSeq(dataset, LAMBDA r : r.id = e)) < time_steps
         /\ mask.cell[<<e, time_steps, 1>>]
    /\ \E i \in Idx(mask.shape) :
         /\ ~mask.cell[i]
         /\ \E g \in 1..mask.shape[3] : whole_data.cell[<<i[1], i[2], g>>] = 0

----------------------------------------------------------------------------
(* balance_data_set, lines 137-198 *)

\* imbalance=1.5, line 137, as the fraction ImbalanceNum / ImbalanceDen.
ImbalanceNum == 3
ImbalanceDen == 2

Entities(tab) == {tab[i].id : i \in DOMAIN tab}

\* The rows of entity e, in table order.
RowsOf(tab, e) == LET mine(r) == r.id = e IN SelectSeq(tab, mine)

RECURSIVE SumCol(_, _)
SumCol(rows, c) == IF rows = <<>> THEN 0 ELSE Head(rows).v[c] + SumCol(Tail(rows), c)

\* Column j of .iloc[:, -n:], as a column of v.
TargetCol(tab, n, j) == Len(tab[1].v) - n + j

\* groupby(id).agg('sum').iloc[:, -n:] - groupby(id).first().iloc[:, -n:]
NPosPerPatient(tab, n) ==
    [e \in Entities(tab) |->
        [j \in 1..n |-> SumCol(RowsOf(tab, e), TargetCol(tab, n, j))
                          - RowsOf(tab, e)[1].v[TargetCol(tab, n, j)]]]

\* (n_pos_per_patient != 0).sum(axis=0)
EverPositiveCount(npos, j) == Cardinality({e \in DOMAIN npos : npos[e][j] # 0})

\* argmax and argmax's counterpart: the first index of the largest, smallest count.
ArgMax(npos, n) ==
    CHOOSE j \in 1..n :
        /\ \A i \in 1..n : EverPositiveCount(npos, i) <= EverPositiveCount(npos, j)
        /\ \A i \in 1..(j - 1) : EverPositiveCount(npos, i) < EverPositiveCount(npos, j)

ArgMin_takesLargest(npos, n) == ArgMax(npos, n)
ArgMin(npos, n) ==
    CHOOSE j \in 1..n :
        /\ \A i \in 1..n : EverPositiveCount(npos, i) >= EverPositiveCount(npos, j)
        /\ \A i \in 1..(j - 1) : EverPositiveCount(npos, i) > EverPositiveCount(npos, j)

RECURSIVE SumSeq(_)
SumSeq(q) == IF q = <<>> THEN 0 ELSE Head(q) + SumSeq(Tail(q))

\* line 165: the index of the rows whose reference column is not 0, in index order.
PosIds(npos, ref) == SortedSeq({e \in DOMAIN npos : npos[e][ref] # 0})

\* lines 166-167: reference column 0 and the row sum over the targets not 0.
NegPosIds(npos, ref) ==
    SortedSeq({e \in DOMAIN npos : npos[e][ref] = 0 /\ SumSeq(npos[e]) # 0})

\* line 168
NegIds(npos, ref) ==
    SortedSeq({e \in DOMAIN npos : npos[e][ref] = 0 /\ SumSeq(npos[e]) = 0})

\* line 175: np.concatenate([neg_pos_ids, neg_ids])
NegPool_allNegativeFirst(negpos, neg) == neg \o negpos
NegPool(negpos, neg) == negpos \o neg

\* line 177
PosIsMinority(pos, neg) == Len(pos) < Len(neg)

\* line 186: minority_class[:minority_length] and
\* majority_class[:int(minority_length * imbalance)], stacked.
TotalIds(minority, majority) ==
    SubSeq(minority, 1, Len(minority))
      \o SubSeq(majority, 1, Min(Len(majority), (Len(minority) * ImbalanceNum) \div ImbalanceDen))

\* train_data[train_data[id_col].isin(ids)]
KeepEntities_dropsRow(tab, ids) ==
    LET keep(r) == r.id \in ids
        kept == SelectSeq(tab, keep)
    IN  SubSeq(kept, 1, Len(kept) - 1)
KeepEntities(tab, ids) == LET keep(r) == r.id \in ids IN SelectSeq(tab, keep)

\* lines 192-195: train_data with minority_data appended difference - 1 times.
RECURSIVE AppendTimes(_, _, _)
AppendTimes(tab, extra, k) ==
    IF k <= 0 THEN tab ELSE AppendTimes(tab \o extra, extra, k - 1)

\* Every entity has MinLength rows of two columns: with one target the first
\* column is a feature, with two both are targets.
BalanceColumns == <<"SEPSIS", "MI">>

EntityRows == [1..MinLength -> [1..Len(BalanceColumns) -> Values]]

\* Entities are interchangeable (the table is read per entity and every pool is
\* shuffled), so tables are drawn up to a renaming of the entities: the row
\* sets of entities 1, 2, ... come in non-decreasing order of their binary code.
RECURSIVE Code(_)
Code(q) == IF q = <<>> THEN 0 ELSE Head(q) + 2 * Code(Tail(q))

UpToRenaming(rows) ==
    \A e \in 1..(Len(rows) - 1) : Code(Flatten(rows[e])) <= Code(Flatten(rows[e + 1]))

BalanceInit ==
    /\ pc = "balance" /\ err = "none"
    /\ PipelineIdle
    /\ df = <<>> /\ random_seed = 0 /\ train_percentage = <<0, 1>>
    /\ np_state = <<"seeded", 0>> /\ rng = <<>>
    /\ keys = <<>> /\ train_keys = <<>> /\ test_keys = <<>>
    /\ test_data = <<>> /\ prev = NoRun
    /\ ReduceIdle /\ PadIdle /\ TensorsIdle
    /\ \E n \in 1..BalMaxE : \E rows \in [1..n -> EntityRows] :
         UpToRenaming(rows) /\ train_data = TableOf(rows)
    /\ \E n \in 1..Len(BalanceColumns) : n_targets = n
    /\ undersample \in BOOLEAN
    /\ n_pos_per_patient = <<>> /\ n_rows = 0
    /\ pos_ids = <<>> /\ neg_pos_ids = <<>> /\ neg_ids = <<>>
    /\ minority_class = <<>> /\ majority_class = <<>>
    /\ total_ids = {} /\ balanced = <<>>

BalanceDataSet ==
    /\ pc = "balance"
    /\ n_pos_per_patient' = NPosPerPatient(train_data, n_targets)
    /\ n_rows' = IF undersample THEN ArgMax(n_pos_per_patient', n_targets)
                                ELSE ArgMin(n_pos_per_patient', n_targets)
    /\ \E p1 \in Perms(Len(PosIds(n_pos_per_patient', n_rows'))),
          p2 \in Perms(Len(NegPosIds(n_pos_per_patient', n_rows'))),
          p3 \in Perms(Len(NegIds(n_pos_per_patient', n_rows'))) :
         /\ pos_ids' = Permute(PosIds(n_pos_per_patient', n_rows'), p1)
         /\ neg_pos_ids' = Permute(NegPosIds(n_pos_per_patient', n_rows'), p2)
         /\ neg_ids' = NegPool(neg_pos_ids', Permute(NegIds(n_pos_per_patient', n_rows'), p3))
    /\ minority_class' = IF PosIsMinority(pos_ids', neg_ids') THEN pos_ids' ELSE neg_ids'
    /\ majority_class' = IF PosIsMinority(pos_ids', neg_ids') THEN neg_ids' ELSE pos_ids'
    /\ IF undersample
       THEN \* np.random.shuffle(total_ids) reorders what isin reads as a set
            /\ total_ids' = Range(TotalIds(minority_class', majority_class'))
            /\ balanced' = KeepEntities(train_data, total_ids')
            /\ err' = "none"
       ELSE /\ total_ids' = {}
            /\ IF Len(minority_class') = 0
               THEN err' = "ZeroDivisionError" /\ balanced' = <<>>
               ELSE /\ err' = "none"
                    /\ balanced' = AppendTimes(train_data,
                                     KeepEntities(train_data, Range(minority_class')),
                                     Len(majority_class') \div Len(minority_class') - 1)
    /\ pc' = "balanced"
    /\ UNCHANGED <<pipelineVars, df, random_seed, train_percentage, np_state, rng, keys,
                   train_keys, test_keys, train_data, test_data, prev, reduceVars, undersample, padVars,
                   saveVars>>

SpecBalance == BalanceInit /\ [][BalanceDataSet]_vars

----------------------------------------------------------------------------
(* Claims about balance_data_set *)

RECURSIVE Repeat(_, _)
Repeat(q, k) == IF k <= 0 THEN <<>> ELSE q \o Repeat(q, k - 1)

\* C4: every entity of the balanced table has all of its original rows: once
\* under undersampling, and under oversampling in whole copies of its row set
\* (as many as the majority holds times the minority for a minority entity,
\* one for any other).
C4_EntitiesKeptWhole ==
    (pc = "balanced" /\ err = "none") =>
        /\ Entities(balanced) \subseteq Entities(train_data)
        /\ \A e \in Entities(balanced) :
             LET copies == IF ~undersample /\ e \in Range(minority_class)
                           THEN Max(Len(majority_class) \div Len(minority_class), 1)
                           ELSE 1
             IN  RowsOf(balanced, e) = Repeat(RowsOf(train_data, e), copies)

\* Oversampling has appended a second copy of a minority entity's rows.
C4_Witness ==
    /\ pc = "balanced" /\ err = "none" /\ ~undersample
    /\ \E e \in Entities(balanced) : Len(RowsOf(balanced, e)) > Len(RowsOf(train_data, e))

\* Undersampling has dropped an entity and kept another.
C4_WitnessUndersampled ==
    /\ pc = "balanced" /\ err = "none" /\ undersample
    /\ balanced # <<>> /\ Entities(balanced) # Entities(train_data)

EverPositive(e, j) ==
    LET rows == RowsOf(train_data, e)
        c == Len(rows[1].v) - n_targets + j
    IN  SumCol(rows, c) - rows[1].v[c] # 0

PositiveSet == {e \in Entities(train_data) : EverPositive(e, n_rows)}
OtherPositiveSet ==
    {e \in Entities(train_data) \ PositiveSet : \E j \in 1..n_targets : EverPositive(e, j)}
AllNegativeSet == Entities(train_data) \ (PositiveSet \cup OtherPositiveSet)
NegativeSet == OtherPositiveSet \cup AllNegativeSet

FirstOf(q, k) == {q[i] : i \in 1..Min(k, Len(q))}

\* C10: under undersampling the minority is the smaller of the positive and
\* the negative pool (the negative pool when they are equal), and the kept
\* entities are the m minority entities and the first
\* min(|majority|, floor(1.5 m)) of the shuffled majority pool; a negative
\* majority pool lists the other-positive entities first, so no all-negative
\* entity is kept while an other-positive one is left out.
C10_UndersamplingKeeps ==
    (pc = "balanced" /\ undersample) =>
        LET posMinor == Cardinality(PositiveSet) < Cardinality(NegativeSet)
            m == IF posMinor THEN Cardinality(PositiveSet) ELSE Cardinality(NegativeSet)
        IN  /\ Range(pos_ids) = PositiveSet /\ Range(neg_ids) = NegativeSet
            /\ minority_class = (IF posMinor THEN pos_ids ELSE neg_ids)
            /\ majority_class = (IF posMinor THEN neg_ids ELSE pos_ids)
            /\ Entities(balanced)
                 = Range(minority_class) \cup FirstOf(majority_class, (3 * m) \div 2)
            /\ Cardinality(Entities(balanced))
                 = m + Min(Len(majority_class), (3 * m) \div 2)
            /\ posMinor =>
                 \A a \in AllNegativeSet \cap Entities(balanced) :
                     OtherPositiveSet \subseteq Entities(balanced)

\* The negative pool is the majority and is cut: the other-positive entity is
\* kept and the all-negative one is left out.
C10_Witness ==
    /\ pc = "balanced" /\ undersample
    /\ majority_class = neg_ids
    /\ OtherPositiveSet # {} /\ OtherPositiveSet \subseteq Entities(balanced)
    /\ AllNegativeSet # {} /\ AllNegativeSet \cap Entities(balanced) = {}

\* The number of entities flagged for target j, counted on the table.
FlaggedCount(j) == Cardinality({e \in Entities(train_data) : EverPositive(e, j)})

\* The all-negative ids: what line 168 computes, which line 175 leaves as the
\* tail of neg_ids behind neg_pos_ids.
AllNegativeIds == SubSeq(neg_ids, Len(neg_pos_ids) + 1, Len(neg_ids))

\* C11: an entity is flagged for a target exactly when the target's sum over
\* its rows minus the value of its first row is not 0; the reference target
\* has the largest count of flagged entities under undersampling and the
\* smallest under oversampling; and the entities fall into three pairwise
\* disjoint partitions that cover them all: flagged for the reference target,
\* not flagged for it but for another target, flagged for none.
C11_ReferenceAndPartitions ==
    pc = "balanced" =>
        /\ DOMAIN n_pos_per_patient = Entities(train_data)
        /\ \A e \in Entities(train_data) : \A j \in 1..n_targets :
             (n_pos_per_patient[e][j] # 0) <=> EverPositive(e, j)
        /\ n_rows \in 1..n_targets
        /\ \A j \in 1..n_targets :
             IF undersample THEN FlaggedCount(j) <= FlaggedCount(n_rows)
                            ELSE FlaggedCount(j) >= FlaggedCount(n_rows)
        /\ Range(pos_ids) = PositiveSet
        /\ Range(neg_pos_ids) = OtherPositiveSet
        /\ Range(AllNegativeIds) = AllNegativeSet
        /\ neg_ids = neg_pos_ids \o AllNegativeIds
        /\ Range(pos_ids) \cap Range(neg_pos_ids) = {}
        /\ Range(pos_ids) \cap Range(AllNegativeIds) = {}
        /\ Range(neg_pos_ids) \cap Range(AllNegativeIds) = {}
        /\ Range(pos_ids) \cup Range(neg_pos_ids) \cup Range(AllNegativeIds)
             = Entities(train_data)
        /\ Len(pos_ids) + Len(neg_ids) = Cardinality(Entities(train_data))

\* Oversampling with two targets of different counts: the reference is the
\* rarer one, and each of the three partitions has an entity.
C11_Witness ==
    /\ pc = "balanced" /\ ~undersample /\ n_targets = 2
    /\ \E j \in 1..n_targets : FlaggedCount(j) > FlaggedCount(n_rows)
    /\ pos_ids # <<>> /\ neg_pos_ids # <<>> /\ AllNegativeIds # <<>>

\* Undersampling with two targets of different counts: the reference is the
\* more frequent one, and an entity positive in its first row only is not
\* flagged.
C11_WitnessUndersampled ==
    /\ pc = "balanced" /\ undersample /\ n_targets = 2
    /\ \E j \in 1..n_targets : FlaggedCount(j) < FlaggedCount(n_rows)
    /\ \E e \in Entities(train_data) \ PositiveSet :
         RowsOf(train_data, e)[1].v[TargetCol(train_data, n_targets, n_rows)] = 1

----------------------------------------------------------------------------
(* reduce_features, lines 104-135: the standardization.  Numbers are kept
   exact: a mean is sum / n, a standard deviation (pandas: ddof = 1) is
   sqrt(sq / den), and a standardized value is (num / n) / sqrt(sq / den). *)

ReduceColumns == <<"heart rate", "wbcs">>

Column(tab, c) == [r \in 1..Len(tab) |-> tab[r][c]]

RECURSIVE SumSquares(_)
SumSquares(q) == IF q = <<>> THEN 0 ELSE Head(q) * Head(q) + SumSquares(Tail(q))

\* train_data.mean(axis=0): NaN for a column without rows (n = 0).
Mean(col) == [sum |-> SumSeq(col), n |-> Len(col)]

\* The standard deviation of fewer than two values is NaN.
NaNStd == [sq |-> -1, den |-> 0]
OneStd == [sq |-> 1, den |-> 1]

\* train_data.std(axis=0): sq / den = sum((x - mean)^2) / (n - 1)
Std(col) ==
    IF Len(col) <= 1 THEN NaNStd
    ELSE [sq |-> Len(col) * SumSquares(col) - SumSeq(col) * SumSeq(col),
          den |-> Len(col) * (Len(col) - 1)]

\* stds[stds == 0] = 1
ZeroToOne_absent(sd) == sd
ZeroToOne(sd) == IF sd # NaNStd /\ sd.sq = 0 THEN OneStd ELSE sd

\* (x - mean) / std
Standardize(x, mean, sd) == [num |-> mean.n * x - mean.sum, n |-> mean.n, std |-> sd]

StandardizeTable(tab, ms, sds) ==
    [r \in 1..Len(tab) |-> [c \in 1..Len(ReduceColumns) |-> Standardize(tab[r][c], ms[c], sds[c])]]

\* What the float is: NaN from a NaN operand or 0 / 0, infinite from x / 0.
IsNaNValue(v) == v.n = 0 \/ v.std = NaNStd \/ (v.std.sq = 0 /\ v.num = 0)
IsInfinite(v) == ~IsNaNValue(v) /\ v.std.sq = 0
IsZero(v) == ~IsNaNValue(v) /\ ~IsInfinite(v) /\ v.num = 0

FeatureTables == SeqsOf([1..Len(ReduceColumns) -> Values], 1, RedMaxRows)

ReduceInit ==
    /\ pc = "reduce" /\ err = "none"
    /\ PipelineIdle
    /\ df = <<>> /\ random_seed = 0 /\ train_percentage = <<0, 1>>
    /\ np_state = <<"seeded", 0>> /\ rng = <<>>
    /\ keys = <<>> /\ train_keys = <<>> /\ test_keys = <<>> /\ prev = NoRun
    /\ train_data \in FeatureTables
    /\ test_data \in FeatureTables
    /\ ReduceIdle /\ BalanceIdle /\ PadIdle /\ SaveIdle

\* PCA(n_components=0.99).fit raises ValueError on NaN input; its projection
\* of the standardized tables (lines 126-135) is not represented.
ReduceFeatures ==
    /\ pc = "reduce"
    /\ means' = [c \in 1..Len(ReduceColumns) |-> Mean(Column(train_data, c))]
    /\ stds' = [c \in 1..Len(ReduceColumns) |-> ZeroToOne(Std(Column(train_data, c)))]
    /\ train_scaled' = StandardizeTable(train_data, means', stds')
    /\ test_scaled' = StandardizeTable(test_data, means', stds')
    /\ err' = IF \E r \in DOMAIN train_scaled', c \in 1..Len(ReduceColumns) :
                    IsNaNValue(train_scaled'[r][c])
              THEN "ValueError" ELSE "none"
    /\ pc' = "reduced"
    /\ UNCHANGED <<pipelineVars, splitVars, balanceVars, padVars, saveVars>>

SpecReduce == ReduceInit /\ [][ReduceFeatures]_vars

----------------------------------------------------------------------------
(* Claims about reduce_features *)

\* The standard deviation of column c over the training rows is 0.
TrainStdIsZero(c) == Std(Column(train_data, c)) # NaNStd /\ Std(Column(train_data, c)).sq = 0

\* C8 as stated: a column whose training standard deviation is 0 is all 0 after
\* standardization, in the training set and in the test set.
C8_ZeroVarianceColumnAllZero ==
    pc = "reduced" =>
        \A c \in 1..Len(ReduceColumns) : TrainStdIsZero(c) =>
            /\ \A r \in DOMAIN train_scaled : IsZero(train_scaled[r][c])
            /\ \A r \in DOMAIN test_scaled : IsZero(test_scaled[r][c])

\* C8 as amended: such a column is all 0 in the training set; in the test set
\* each value is the test value minus the constant training value, so neither
\* NaN nor infinite, and 0 exactly where the two are equal.
C8_ZeroVarianceColumnCentred ==
    pc = "reduced" =>
        \A c \in 1..Len(ReduceColumns) : TrainStdIsZero(c) =>
            /\ \A r \in DOMAIN train_scaled : IsZero(train_scaled[r][c])
            /\ \A r \in DOMAIN test_scaled :
                 LET v == test_scaled[r][c]
                 IN  /\ ~IsNaNValue(v) /\ ~IsInfinite(v)
                     /\ v.std = OneStd
                     /\ v.num = v.n * (test_data[r][c] - train_data[1][c])
                     /\ IsZero(v) <=> test_data[r][c] = train_data[1][c]

\* A constant training column met by a test value that differs and one that
\* does not.
C8_Witness ==
    /\ pc = "reduced"
    /\ \E c \in 1..Len(ReduceColumns) :
         /\ TrainStdIsZero(c)
         /\ \E r \in DOMAIN test_scaled : ~IsZero(test_scaled[r][c])
         /\ \E r \in DOMAIN test_scaled : IsZero(test_scaled[r][c])

----------------------------------------------------------------------------
(* save_data_to_disk, lines 18-56 *)

\* whole_data[:, :-1, :-n_targets]
InputSlice(x, n) ==
    Slice(x, 1, StopNeg(x.shape[2], 1), 1, StopNeg(x.shape[3], n))

\* whole_data[:, 1:, -n_targets:], then reshape(shape[0], shape[1], n_targets)
TargetsSlice_unshifted(x, n) ==
    LET t == Slice(x, 1, StopNeg(x.shape[2], 1), StartNeg(x.shape[3], n) + 1, x.shape[3])
    IN  Reshape(t, <<t.shape[1], t.shape[2], n>>)
TargetsSlice(x, n) ==
    LET t == Slice(x, 2, x.shape[2], StartNeg(x.shape[3], n) + 1, x.shape[3])
    IN  Reshape(t, <<t.shape[1], t.shape[2], n>>)

\* dump_pickle(obj, get_pickle_file_path(file, labels, output_folder))
DumpPickle(fs, file, obj) == (file :> obj) @@ fs

\* The cells of the tensor are all different, so that a slice shows which cell
\* went where; the mask marks, per entity, the steps after its last real row.
Shapes == (1..SaveMaxE) \X (2..SaveMaxT) \X (1..SaveMaxF)

SaveInit ==
    /\ pc = "save" /\ err = "none"
    /\ SplitIdle /\ ReduceIdle /\ BalanceIdle /\ PadIdle
    /\ \E shape \in Shapes :
         LET id(e, t, f) == <<e, t, f>>
         IN  whole_data = Array(shape, id)
    /\ \E shape \in Shapes : \E len \in [1..shape[1] -> 0..shape[2]] :
         LET padded(e, t, f) == t > len[e]
         IN  mask = Array(shape, padded)
    /\ n_targets \in 1..whole_data.shape[3]
    /\ name \in {"train", "test"}
    /\ input_data = NoArray /\ targets_data = NoArray
    /\ input_data_mask = NoArray /\ targets_mask = NoArray
    /\ files = <<>>

SaveDataToDisk ==
    /\ pc = "save"
    /\ LET inp == InputSlice(whole_data, n_targets)
           tgt == TargetsSlice(whole_data, n_targets)
           inpm == InputSlice(mask, n_targets)
           tgtm == TargetsSlice(mask, n_targets)
       IN  IF tgt = Raised \/ tgtm = Raised
           THEN /\ err' = "ValueError"
                /\ UNCHANGED <<input_data, targets_data, input_data_mask, targets_mask, files>>
           ELSE /\ input_data' = inp /\ targets_data' = tgt
                /\ input_data_mask' = inpm /\ targets_mask' = tgtm
                /\ IF inp.shape # inpm.shape \/ tgt.shape # tgtm.shape
                   THEN err' = "AssertionError" /\ UNCHANGED files
                   ELSE /\ err' = "none"
                        /\ files' = DumpPickle(DumpPickle(DumpPickle(DumpPickle(files,
                                      name \o "_data", inp),
                                      name \o "_targets", tgt),
                                      name \o "_data_mask", inpm),
                                      name \o "_targets_mask", tgtm)
    /\ pc' = "saved"
    /\ UNCHANGED <<pipelineVars, splitVars, reduceVars, balanceVars, padVars, whole_data, mask,
                   n_targets, name>>

SpecSave == SaveInit /\ [][SaveDataToDisk]_vars

----------------------------------------------------------------------------
(* Claims about save_data_to_disk *)

\* The slices as the specification writes them, 0-based and half-open:
\* x[:, 0:T-1, 0:F-N] and x[:, 1:T, F-N:F], T and F being x's own.
ExpectedInput(x, n) ==
    LET at(e, t, f) == x.cell[<<e, t, f>>]
    IN  Array(<<x.shape[1], x.shape[2] - 1, Max(x.shape[3] - n, 0)>>, at)

ExpectedTargets(x, n) ==
    LET at(e, t, j) == x.cell[<<e, t + 1, Max(x.shape[3] - n, 0) + j>>]
    IN  Array(<<x.shape[1], x.shape[2] - 1, Min(n, x.shape[3])>>, at)

ShapesDiffer ==
    \/ ExpectedInput(whole_data, n_targets).shape # ExpectedInput(mask, n_targets).shape
    \/ ExpectedTargets(whole_data, n_targets).shape # ExpectedTargets(mask, n_targets).shape

Persisted(file, obj) == file \in DOMAIN files /\ files[file] = obj

\* C3: the persisted input is tensor[:, 0:T-1, 0:F-N] and the persisted target
\* is tensor[:, 1:T, F-N:F], so the target at step t is the tensor's target
\* columns at step t+1; the masks are sliced the same way; an error is raised,
\* and nothing persisted, whenever the input shapes or the target shapes of
\* data and mask differ.
C3_ShiftedSlicesPersisted ==
    pc = "saved" =>
        IF ShapesDiffer
        THEN err # "none" /\ files = <<>>
        ELSE /\ err = "none"
             /\ Persisted(name \o "_data", ExpectedInput(whole_data, n_targets))
             /\ Persisted(name \o "_targets", ExpectedTargets(whole_data, n_targets))
             /\ Persisted(name \o "_data_mask", ExpectedInput(mask, n_targets))
             /\ Persisted(name \o "_targets_mask", ExpectedTargets(mask, n_targets))
             /\ \A e \in 1..whole_data.shape[1] : \A t \in 1..(whole_data.shape[2] - 1) :
                  \A j \in 1..n_targets :
                    files[name \o "_targets"].cell[<<e, t, j>>]
                      = <<e, t + 1, whole_data.shape[3] - n_targets + j>>

C3_Witness ==
    /\ pc = "saved" /\ err = "none"
    /\ Persisted(name \o "_targets", ExpectedTargets(whole_data, n_targets))
    /\ whole_data.shape[2] >= 3 /\ n_targets >= 2 /\ whole_data.shape[3] > n_targets
    /\ \E i \in Idx(mask.shape) : mask.cell[i]

C3_WitnessError == pc = "saved" /\ err = "AssertionError"

----------------------------------------------------------------------------
(* split_and_normalize_data, lines 220-227 *)

\* int(train_percentage * len(keys))
TrainBound(frac, ks) == (frac[1] * Len(ks)) \div frac[2]

TrainKeys(ks, b) == SubSeq(ks, 1, b)

TestKeys_dropsOne(ks, b) == SubSeq(ks, b + 2, Len(ks))
TestKeys(ks, b) == SubSeq(ks, b + 1, Len(ks))

\* The generator state df.sample draws from: RandomState(self.random_seed), fresh.
SampleState_global == np_state
SampleState == <<"seeded", random_seed>>

\* The generator in state st asked for a permutation of n items answers p: the
\* answer is a function of (st, n), unknown but the same each time it is asked.
Draws(st, n, p) ==
    /\ p \in Perms(n)
    /\ <<st, n>> \in DOMAIN rng => p = rng[<<st, n>>]

Remember(st, n, p) == (<<st, n>> :> p) @@ rng

SplitInit ==
    /\ pc = "split" /\ err = "none"
    /\ PipelineIdle
    /\ df \in SeqsOf(1..SplitMaxId, 1, SplitMaxRows)
    /\ random_seed \in 0..MaxSeed
    /\ train_percentage \in {<<k, FracDen>> : k \in 0..FracDen}
    /\ np_state = <<"entropy", 0>> /\ rng = <<>>
    /\ keys = <<>> /\ train_keys = <<>> /\ test_keys = <<>>
    /\ train_data = <<>> /\ test_data = <<>> /\ prev = NoRun
    /\ ReduceIdle /\ BalanceIdle /\ PadIdle /\ SaveIdle

SplitAndNormalize ==
    /\ pc = "split"
    /\ \E p \in Perms(Len(df)) :
         /\ Draws(SampleState, Len(df), p)
         /\ rng' = Remember(SampleState, Len(df), p)
         /\ LET ks == Unique(Permute(df, p))
                train_bound == TrainBound(train_percentage, ks)
            IN  /\ keys' = ks
                /\ train_keys' = TrainKeys(ks, train_bound)
                /\ test_keys' = TestKeys(ks, train_bound)
                /\ train_data' = IsIn(df, TrainKeys(ks, train_bound))
                /\ test_data' = IsIn(df, TestKeys(ks, train_bound))
    /\ np_state' = <<"seeded", random_seed>>
    /\ pc' = "returned"
    /\ UNCHANGED <<err, pipelineVars, df, random_seed, train_percentage, prev, reduceVars,
                   balanceVars, padVars, saveVars>>

\* A second run of the program, a new process whose process-wide generator
\* starts from fresh entropy, with the same seed and fraction on a table that
\* holds the same rows, in the same or in another order.
RunAgain ==
    /\ pc = "returned" /\ prev = NoRun
    /\ \E p \in Perms(Len(df)) : df' = Permute(df, p)
    /\ prev' = [df |-> df, seed |-> random_seed, frac |-> train_percentage,
                train_keys |-> train_keys, test_keys |-> test_keys,
                train_data |-> train_data, test_data |-> test_data]
    /\ np_state' = <<"entropy", 1>>
    /\ keys' = <<>> /\ train_keys' = <<>> /\ test_keys' = <<>>
    /\ train_data' = <<>> /\ test_data' = <<>>
    /\ pc' = "split"
    /\ UNCHANGED <<err, pipelineVars, random_seed, train_percentage, rng, reduceVars,
                   balanceVars, padVars, saveVars>>

SplitNext == SplitAndNormalize \/ RunAgain

SpecSplit == SplitInit /\ [][SplitNext]_vars

----------------------------------------------------------------------------
(* Claims about split_and_normalize_data *)

Count(s, x) == Cardinality({i \in DOMAIN s : s[i] = x})

\* C1: the returned train and test tables have disjoint entity-identifier sets
\* whose union is the input's entity set, and every entity has all of its rows
\* on one side.
C1_SplitPartitionsEntities ==
    pc = "returned" =>
        /\ Range(train_data) \cap Range(test_data) = {}
        /\ Range(train_data) \cup Range(test_data) = Range(df)
        /\ \A e \in Range(df) :
             \/ Count(train_data, e) = Count(df, e) /\ Count(test_data, e) = 0
             \/ Count(test_data, e) = Count(df, e) /\ Count(train_data, e) = 0

C1_Witness ==
    /\ pc = "returned"
    /\ train_data # <<>> /\ test_data # <<>>
    /\ \E e \in Range(df) : Count(df, e) >= 2

SameSplitAsBefore ==
    /\ Range(train_keys) = Range(prev.train_keys)
    /\ Range(test_keys) = Range(prev.test_keys)

\* C2 as stated: a second run with the same seed and fraction on a table with
\* the same rows in any order puts the same identifiers in train and in test.
C2_SplitIgnoresRowOrder ==
    (pc = "returned" /\ prev # NoRun) => SameSplitAsBefore

\* C2 as amended: a second run with the same seed and fraction on a table whose
\* id column is the same row for row puts the same identifiers in train and in
\* test.
C2_SplitDeterministic ==
    (pc = "returned" /\ prev # NoRun /\ df = prev.df) => SameSplitAsBefore

C2_Witness ==
    /\ pc = "returned" /\ prev # NoRun /\ df = prev.df
    /\ train_keys # <<>> /\ test_keys # <<>>
    /\ SameSplitAsBefore

----------------------------------------------------------------------------
(* create_target, lines 69-102, on the columns of the table *)

IdCol == "hadm_id"

\* The targets create_target knows, in the order of its three if-statements.
SupportedTargets == <<"MI", "SEPSIS", "VANCOMYCIN">>

\* A name create_target has no rule for.
UnsupportedTarget == "STROKE"

\* The measurement columns of the parsed file that create_target reads or drops,
\* "gender" being of dtype object.
MeasurementColumns ==
    <<"subject_id", "gender", "heart rate", "respiratory rate", "wbcs", "temperature (f)",
      "troponin", "troponin_std", "ckd", "infection", "vancomycin">>

ObjectColumns == {"gender"}

\* df[name] = ...: a new column goes last, an existing one keeps its place.
Assign(cols, c) == IF c \in Range(cols) THEN cols ELSE Append(cols, c)

\* df.drop(names, axis=1, errors='ignore')
Drop(cols, names) == LET keep(c) == c \notin names IN SelectSeq(cols, keep)

TrivialFeatures(tg) ==
    {"subject_id", "yob", "admityear", "ct_angio", "infection", "ckd"}
      \cup (IF "MI" \in Range(tg)
            THEN {"troponin", "troponin_std", "troponin_min", "troponin_max"} ELSE {})
      \cup (IF "VANCOMYCIN" \in Range(tg) THEN {"vancomycin"} ELSE {})

CreateTarget(cols, tg) ==
    LET c1 == IF "MI" \in Range(tg) THEN Assign(cols, "MI") ELSE cols
        c2 == IF "SEPSIS" \in Range(tg) THEN Assign(c1, "SEPSIS") ELSE c1
        c3 == IF "VANCOMYCIN" \in Range(tg) THEN Assign(c2, "VANCOMYCIN") ELSE c2
    IN  Drop(Drop(c3, TrivialFeatures(tg)), ObjectColumns)

----------------------------------------------------------------------------
(* apply_pipeline, lines 277-312, and main, main.py lines 99-114.  The table
   is its columns and its id column; the values of the other columns are not
   represented. *)

\* The methods of MimicPreProcessor.
Methods == {"create_target", "reduce_features", "balance_data_set",
            "split_and_normalize_data", "pad_data", "apply_pipeline"}

\* main.py lines 111 and 113
MethodCalledByMain == "pre_process_and_save_files"

\* def save_data_to_disk(self, whole_data, mask, name, labels, output_folder,
\* n_targets=1): the parameters without a default.
SaveParams == <<"self", "whole_data", "mask", "name", "labels", "output_folder">>

\* line 310: save_data_to_disk(whole_data, mask, name, targets, output_folder,
\* n_targets=len(targets)): the positional arguments.
SaveCallArgs == <<"whole_data", "mask", "name", "targets", "output_folder">>

\* The required parameters a call leaves without a value: a TypeError if any.
MissingParams(params, args) == {params[i] : i \in (Len(args) + 1)..Len(params)}

\* train_percentage=0.8, line 301
TrainPercentage == <<4, 5>>

\* filter_sequences(df, min, max, grouping_col) of modules/utils/pad_sequences:
\* the rows of the entities that have min..max rows.
FilterSequences(ids, lo, hi) ==
    LET keep(x) == Cardinality({i \in DOMAIN ids : ids[i] = x}) \in lo..hi
    IN  SelectSeq(ids, keep)

\* A tensor of which only the shape is known.
ShapeOnly(shape) == LET unknown(e, t, f) == "value" IN Array(shape, unknown)

NoDuplicates(q) == \A i, j \in DOMAIN q : q[i] = q[j] => i = j

TargetLists ==
    {tg \in SeqsOf(Range(SupportedTargets) \cup {UnsupportedTarget}, 1, MaxTargets) :
        NoDuplicates(tg)}

Init ==
    /\ pc \in {"main", "apply_pipeline"} /\ err = "none"
    /\ targets \in TargetLists
    /\ n_targets = Len(targets)
    /\ parsed_columns \in {<<IdCol>> \o MeasurementColumns, MeasurementColumns \o <<IdCol>>}
    /\ columns = <<>>
    /\ balance_set \in BOOLEAN /\ reduce_features \in BOOLEAN /\ has_nan \in BOOLEAN
    /\ feature_names = <<>> /\ half = 0
    /\ \E n \in 1..PipeMaxE : \E rows \in [1..n -> (MinLength - 1)..MinLength] :
         df = Flatten([e \in 1..n |-> [t \in 1..rows[e] |-> e]])
    /\ random_seed \in 0..MaxSeed
    /\ train_percentage = TrainPercentage
    /\ np_state = <<"entropy", 0>> /\ rng = <<>>
    /\ keys = <<>> /\ train_keys = <<>> /\ test_keys = <<>>
    /\ train_data = <<>> /\ test_data = <<>> /\ prev = NoRun
    /\ ReduceIdle /\ BalanceIdle
    /\ dataset = <<>> /\ time_steps = MinLength + 1
    /\ TensorsIdle

\* main.py line 111: the method main calls is not one of MimicPreProcessor.
Main ==
    /\ pc = "main"
    /\ IF MethodCalledByMain \in Methods
       THEN pc' = "apply_pipeline" /\ err' = "none"
       ELSE pc' = "failed" /\ err' = "AttributeError"
    /\ UNCHANGED <<pipelineVars, splitVars, reduceVars, balanceVars, padVars, saveVars>>

\* line 299
ApplyCreateTarget ==
    /\ pc = "apply_pipeline"
    /\ columns' = CreateTarget(parsed_columns, targets)
    /\ pc' = "filter_sequences"
    /\ UNCHANGED <<err, targets, parsed_columns, balance_set, reduce_features, has_nan,
                   feature_names, half, splitVars, reduceVars, balanceVars, padVars, saveVars>>

\* line 300
ApplyFilterSequences ==
    /\ pc = "filter_sequences"
    /\ df' = FilterSequences(df, MinLength, time_steps)
    /\ pc' = "split_and_normalize_data"
    /\ UNCHANGED <<err, pipelineVars, random_seed, train_percentage, np_state, rng, keys,
                   train_keys, test_keys, train_data, test_data, prev, reduceVars,
                   balanceVars, padVars, saveVars>>

\* lines 301-302: split_and_normalize_data.  With reduce_features the columns
\* before the last n_targets + 1 become some number k of components; with
\* balance_set, balance_data_set (undersampling) keeps the rows of some of the
\* train entities.
ApplySplitAndNormalize ==
    /\ pc = "split_and_normalize_data"
    /\ np_state' = <<"seeded", random_seed>>
    /\ \E p \in Perms(Len(df)) :
         /\ Draws(SampleState, Len(df), p)
         /\ rng' = Remember(SampleState, Len(df), p)
         /\ keys' = Unique(Permute(df, p))
    /\ train_keys' = TrainKeys(keys', TrainBound(train_percentage, keys'))
    /\ test_keys' = TestKeys(keys', TrainBound(train_percentage, keys'))
    /\ test_data' = IsIn(df, test_keys')
    /\ \E kept \in SUBSET Range(train_keys') :
         /\ ~balance_set => kept = Range(train_keys')
         /\ train_data' = LET keep(x) == x \in kept IN SelectSeq(df, keep)
    /\ LET rest == Len(columns) - StartNeg(Len(columns), n_targets + 1)
           nfeat == StopNeg(Len(columns), n_targets + 1)
       IN  IF reduce_features /\ (nfeat = 0 \/ train_keys' = <<>>)
           THEN /\ err' = "ValueError" /\ pc' = "failed" /\ UNCHANGED columns
           ELSE /\ \E k \in 1..Max(nfeat, 1) :
                     columns' = IF reduce_features
                                THEN [i \in 1..k |-> "component"]
                                       \o SubSeq(columns, nfeat + 1, Len(columns))
                                ELSE columns
                /\ IF has_nan
                   THEN err' = "Exception" /\ pc' = "failed"
                   ELSE err' = "none" /\ pc' = "features"
    /\ UNCHANGED <<targets, parsed_columns, balance_set, reduce_features, has_nan,
                   feature_names, half, df, random_seed, train_percentage, prev,
                   reduceVars, balanceVars, padVars, saveVars>>

\* lines 304-306
ApplyDumpFeatures ==
    /\ pc = "features"
    /\ LET names == SubSeq(columns, 1, StopNeg(Len(columns), Len(targets)))
       IN  IF IdCol \in Range(names)
           THEN /\ feature_names' = Drop(names, {IdCol})
                /\ files' = DumpPickle(files, "features", feature_names')
                /\ half' = 1
                /\ pc' = "pad_data" /\ err' = "none"
           ELSE /\ pc' = "failed" /\ err' = "ValueError"
                /\ UNCHANGED <<feature_names, files, half>>
    /\ UNCHANGED <<targets, parsed_columns, columns, balance_set, reduce_features, has_nan,
                   splitVars, reduceVars, balanceVars, padVars, whole_data, mask,
                   n_targets, name, input_data, targets_data, input_data_mask, targets_mask>>

\* line 309: pad_data on the half the loop has reached
ApplyPadData ==
    /\ pc = "pad_data"
    /\ dataset' = IF half = 1 THEN train_data ELSE test_data
    /\ name' = IF half = 1 THEN "train" ELSE "test"
    /\ whole_data' = ShapeOnly(<<Cardinality(Range(dataset')), time_steps, Len(columns) - 1>>)
    /\ mask' = whole_data'
    /\ pc' = "save_data_to_disk"
    /\ UNCHANGED <<err, pipelineVars, splitVars, reduceVars, balanceVars, time_steps,
                   n_targets, input_data, targets_data, input_data_mask, targets_mask,
                   files>>

\* line 310: the call of save_data_to_disk, and lines 308-312 after it
ApplySaveDataToDisk ==
    /\ pc = "save_data_to_disk"
    /\ IF MissingParams(SaveParams, SaveCallArgs) # {}
       THEN /\ err' = "TypeError" /\ pc' = "failed"
            /\ UNCHANGED <<input_data, targets_data, input_data_mask, targets_mask, files,
                           half>>
       ELSE /\ input_data' = InputSlice(whole_data, n_targets)
            /\ targets_data' = TargetsSlice(whole_data, n_targets)
            /\ input_data_mask' = InputSlice(mask, n_targets)
            /\ targets_mask' = TargetsSlice(mask, n_targets)
            /\ files' = DumpPickle(DumpPickle(DumpPickle(DumpPickle(files,
                          name \o "_data", input_data'),
                          name \o "_targets", targets_data'),
                          name \o "_data_mask", input_data_mask'),
                          name \o "_targets_mask", targets_mask')
            /\ err' = "none"
            /\ half' = half + 1
            /\ pc' = IF half = 1 THEN "pad_data" ELSE "done"
    /\ UNCHANGED <<targets, parsed_columns, columns, balance_set, reduce_features, has_nan,
                   feature_names, splitVars, reduceVars, balanceVars, padVars, whole_data,
                   mask, n_targets, name>>

Next ==
    \/ Main
    \/ ApplyCreateTarget
    \/ ApplyFilterSequences
    \/ ApplySplitAndNormalize
    \/ ApplyDumpFeatures
    \/ ApplyPadData
    \/ ApplySaveDataToDisk

Spec == Init /\ [][Next]_vars

----------------------------------------------------------------------------
(* Claims about create_target and apply_pipeline *)

AllSupported == \A i \in DOMAIN targets : targets[i] \in Range(SupportedTargets)

CreateTargetReturned == pc \notin {"main", "apply_pipeline"} /\ err # "AttributeError"

LastColumns(n) == SubSeq(columns, Len(columns) - n + 1, Len(columns))

\* C6: for a list of supported targets, the table create_target returns has
\* the target columns as its last N columns, in the order requested.
C6_TargetsLastInRequestOrder ==
    (pc = "filter_sequences" /\ AllSupported) => LastColumns(Len(targets)) = targets

\* What the code does keep: the last N columns are the requested targets, in
\* the order MI, SEPSIS, VANCOMYCIN.
TargetsLastInFixedOrder ==
    (pc = "filter_sequences" /\ AllSupported) =>
        /\ Range(LastColumns(Len(targets))) = Range(targets)
        /\ LastColumns(Len(targets))
             = LET asked(t) == t \in Range(targets) IN SelectSeq(SupportedTargets, asked)

\* C7: with an unsupported name among the targets, no column is created for
\* it and apply_pipeline fails before it splits, balances, pads or persists.
C7_MissingTargetFailsFast ==
    (\E i \in DOMAIN targets : targets[i] = UnsupportedTarget) =>
        /\ UnsupportedTarget \notin Range(columns)
        /\ pc \in {"main", "apply_pipeline", "filter_sequences", "split_and_normalize_data",
                   "failed"}
        /\ pc = "failed" => keys = <<>> /\ files = <<>>

\* The run is valid: apply_pipeline itself is called, on supported targets, a
\* table without NaN, its id column last before the targets, and at least one
\* entity on each side of the split.
ValidRun ==
    /\ AllSupported /\ ~has_nan
    /\ err # "AttributeError"
    /\ parsed_columns[Len(parsed_columns)] = IdCol
    /\ pc \in {"failed", "done"} => train_data # <<>> /\ test_data # <<>>

Artifacts ==
    {"features", "train_data", "train_targets", "train_data_mask", "train_targets_mask",
     "test_data", "test_targets", "test_data_mask", "test_targets_mask"}

\* C9: a run of apply_pipeline on a valid input ends with the features
\* artifact and the four artifacts of each half written.
C9_AllArtifactsWritten ==
    (pc \in {"failed", "done"} /\ ValidRun) => (pc = "done" /\ Artifacts \subseteq DOMAIN files)

====
